---- MODULE Spec2Model ----
(***************************************************************************)
(* Trick detection and posture scoring over pose frames                    *)
(* (ai/trick_classification/predictor.py), frame extraction and ground     *)
(* estimation (ai/pose_estimation/extractor.py) and the no-person result   *)
(* of the pipeline (ai/pipeline.py).                                       *)
(*                                                                         *)
(* Units.  Normalised image coordinates are integers in hundredths         *)
(* (0.5 is 50).  Angles are whole degrees.  Confidences are integers in    *)
(* thousandths (0.7 is 700).  List positions are 0-based as in the source; *)
(* the element at position i of a sequence s is s[i + 1].                  *)
(*                                                                         *)
(* The shoulder pair (landmarks 11 and 12) of a frame is carried as the    *)
(* bearing of the vector from the left to the right shoulder, a whole      *)
(* number of degrees in any representative (260 and -100 are the same      *)
(* bearing); arctan2 is modelled by what it returns for that vector, the   *)
(* principal value in (-180, 180].                                         *)
(***************************************************************************)
EXTENDS Integers, Sequences, FiniteSets

VARIABLES
    pose_frames,         \* the list[PoseFrame] the operation is applied to
    pc,                  \* "input" before the operation, then the operation's name
    segments,            \* return value of _find_airborne_segments
    trick,               \* return value of _classify_airborne_trick
    windows,             \* start positions visited by the loop of _detect_ground_tricks
    tricks,              \* return value of _detect_ground_tricks / detect_tricks
    airborne_threshold,  \* local of _estimate_ground_and_airborne, times 100
    scores,              \* return value of analyze_posture
    result,              \* return value of ReridePipeline.analyze
    predictor,           \* the attributes of the TrickPredictor the calls are made on
    history,             \* the calls made on the predictor, each with its return value
    video,               \* per video frame, what _process_frame finds in it
    frame_idx,           \* local of extract_from_video: number of video frames read
    labelled,            \* per extracted frame, how often the estimation pass set its flag
    joints,              \* the arguments a, b, c of _calculate_angle
    angle,               \* return value of _calculate_angle, in tenths of a degree
    pose_array,          \* return value of poses_to_numpy
    settings,            \* the backend's Settings object
    video_status,        \* column status of the one Video row
    requests,            \* the request_analysis calls in progress, each at its await point
    analyses             \* the analyses started for the video, each with its progress

callVars == <<scores, result, predictor, history>>
extractVars == <<video, frame_idx, labelled>>
geometryVars == <<joints, angle, pose_array>>
backendVars == <<settings, video_status, requests, analyses>>

vars == <<pose_frames, pc, segments, trick, windows, tricks, airborne_threshold,
          scores, result, predictor, history, video, frame_idx, labelled,
          joints, angle, pose_array, settings, video_status, requests, analyses>>

(***************************************************************************)
(* Program constants                                                       *)
(***************************************************************************)
MinAirborneFrames == 3
window_size == 10
GrabDistance == 10
CarvingRange == 20
Rotation360 == 150
Rotation180 == 80
GroundPercentile == 80
AirborneMargin == 5

None == [trick_type |-> "None"]
NoStart == -1

(***************************************************************************)
(* Data                                                                    *)
(***************************************************************************)
PoseFrame(idx, ts, sdir, lh, rh, lf, rf, board, air) ==
    [frame_idx |-> idx, timestamp_ms |-> ts, shoulder_dir |-> sdir,
     left_hand |-> lh, right_hand |-> rh, left_foot |-> lf, right_foot |-> rf,
     board_angle |-> board, is_airborne |-> air]

\* the value of a result variable before the operation has returned
NotReturned == [returned |-> FALSE]

\* the attributes TrickPredictor.__init__ sets: the device and the classifier in eval mode
TrickPredictor == [device |-> "cpu", model |-> [training |-> FALSE]]

\* Settings() with its defaults, as far as the analysis service reads it
Settings == [use_celery |-> FALSE]

\* scores are carried in tenths, the resolution analyze_posture rounds them to
AnalysisScores(overall, difficulty, stability, lines) ==
    [overall_score |-> overall, difficulty_score |-> difficulty,
     stability_score |-> stability, feedback |-> lines]

TrickPredictionFromFirst(type, conf, first, last) ==
    [trick_type |-> type, confidence |-> conf,
     start_frame |-> first.frame_idx, end_frame |-> first.frame_idx,
     start_time_ms |-> first.timestamp_ms, end_time_ms |-> last.timestamp_ms]

TrickPrediction(type, conf, first, last) ==
    [trick_type |-> type, confidence |-> conf,
     start_frame |-> first.frame_idx, end_frame |-> last.frame_idx,
     start_time_ms |-> first.timestamp_ms, end_time_ms |-> last.timestamp_ms]

(***************************************************************************)
(* Numeric helpers                                                         *)
(***************************************************************************)
Abs(x) == IF x < 0 THEN -x ELSE x
Min(a, b) == IF a <= b THEN a ELSE b
SetMax(S) == CHOOSE m \in S : \A x \in S : x <= m
SetMin(S) == CHOOSE m \in S : \A x \in S : m <= x

\* np.degrees(np.arctan2(dy, dx)) of a vector with bearing d: the principal value
Atan2Deg(d) ==
    LET m == d % 360 IN IF m > 180 THEN m - 360 ELSE m

\* round(num/den, 2) in thousandths; an exact tie goes to the even hundredth
Round2(num, den) ==
    LET q == (100 * num) \div den
        r == (100 * num) % den
    IN  IF 2 * r > den THEN 10 * (q + 1)
        ELSE IF 2 * r = den THEN 10 * (q + (q % 2))
        ELSE 10 * q

\* list(range(start, stop, step)) for step > 0
RECURSIVE PyRange(_, _, _)
PyRange(start, stop, step) ==
    IF start >= stop THEN <<>>
    ELSE <<start>> \o PyRange(start + step, stop, step)

SliceShort(s, a, b) == SubSeq(s, a + 1, b - 1)

\* s[a : b] for 0 <= a, b <= len(s)
Slice(s, a, b) == SubSeq(s, a + 1, b)

(***************************************************************************)
(* TrickPredictor._find_airborne_segments                                  *)
(***************************************************************************)
RunTooShort(length) == length > MinAirborneFrames

\* the minimum-length test of both places a run is closed
RunLongEnough(length) == length >= MinAirborneFrames

RECURSIVE FindSegmentsLoop(_, _, _, _)
FindSegmentsLoop(frames, i, start, segs) ==
    IF i = Len(frames)
    THEN IF start # NoStart /\ RunLongEnough(Len(frames) - start)
         THEN Append(segs, <<start, Len(frames) - 1>>)
         ELSE segs
    ELSE LET pf == frames[i + 1] IN
         IF pf.is_airborne /\ start = NoStart
         THEN FindSegmentsLoop(frames, i + 1, i, segs)
         ELSE IF ~pf.is_airborne /\ start # NoStart
         THEN FindSegmentsLoop(frames, i + 1, NoStart,
                  IF RunLongEnough(i - start)
                  THEN Append(segs, <<start, i - 1>>)
                  ELSE segs)
         ELSE FindSegmentsLoop(frames, i + 1, start, segs)

_find_airborne_segments(frames) == FindSegmentsLoop(frames, 0, NoStart, <<>>)

(***************************************************************************)
(* TrickPredictor._classify_airborne_trick                                 *)
(***************************************************************************)
ShoulderAngle(pf) == Atan2Deg(pf.shoulder_dir)

TotalRotation(segment) ==
    IF Len(segment) > 1
    THEN Abs(ShoulderAngle(segment[Len(segment)]) - ShoulderAngle(segment[1]))
    ELSE 0

\* np.linalg.norm(hand - (left_foot + right_foot) / 2) < 0.1, doubled and squared
HandNearFeet(hand, pf) ==
    LET dx == 2 * hand[1] - (pf.left_foot[1] + pf.right_foot[1])
        dy == 2 * hand[2] - (pf.left_foot[2] + pf.right_foot[2])
    IN  dx * dx + dy * dy < (2 * GrabDistance) * (2 * GrabDistance)

FrameHasGrab(pf) == HandNearFeet(pf.left_hand, pf) \/ HandNearFeet(pf.right_hand, pf)

HasGrab(segment) == \E k \in 1..Len(segment) : FrameHasGrab(segment[k])

ExceedsOrEquals(rot, limit) == rot >= limit

\* total_rotation > limit
Exceeds(rot, limit) == rot > limit

TrickTypeRotationFirst(has_grab, rot, length) ==
    IF Exceeds(rot, Rotation360) THEN "jump_360"
    ELSE IF Exceeds(rot, Rotation180) THEN "jump_180"
    ELSE IF has_grab THEN "grab_indy"
    ELSE IF length >= MinAirborneFrames THEN "jump_straight"
    ELSE "None"

TrickTypeLongJumpsOnly(has_grab, rot, length) ==
    IF has_grab THEN "grab_indy"
    ELSE IF Exceeds(rot, Rotation360) THEN "jump_360"
    ELSE IF Exceeds(rot, Rotation180) THEN "jump_180"
    ELSE IF length > MinAirborneFrames THEN "jump_straight"
    ELSE "None"

\* the if/elif chain that picks the type; "None" stands for the final return None
TrickType(has_grab, rot, length) ==
    IF has_grab THEN "grab_indy"
    ELSE IF Exceeds(rot, Rotation360) THEN "jump_360"
    ELSE IF Exceeds(rot, Rotation180) THEN "jump_180"
    ELSE IF length >= MinAirborneFrames THEN "jump_straight"
    ELSE "None"

RawConfidenceUncapped(type, rot) ==
    CASE type = "grab_indy" -> <<6, 10>>
      [] type = "jump_360" -> <<250 + rot, 500>>
      [] type = "jump_180" -> <<180 + rot, 300>>
      [] type = "jump_straight" -> <<7, 10>>

\* the confidence assigned in the chosen branch, before rounding, as num/den
RawConfidence(type, rot) ==
    CASE type = "grab_indy" -> <<6, 10>>
      [] type = "jump_360" -> <<250 + Min(200, rot), 500>>
      [] type = "jump_180" -> <<180 + Min(90, rot), 300>>
      [] type = "jump_straight" -> <<7, 10>>

Unrounded(num, den) == (1000 * num) \div den

\* confidence=round(confidence, 2)
RoundedConfidence(num, den) == Round2(num, den)

_classify_airborne_trick(segment, start_idx, end_idx) ==
    IF segment = <<>> THEN None
    ELSE LET rot  == TotalRotation(segment)
             type == TrickType(HasGrab(segment), rot, Len(segment))
             raw  == RawConfidence(type, rot)
         IN  IF type = "None" THEN None
             ELSE TrickPrediction(type, RoundedConfidence(raw[1], raw[2]),
                                  segment[1], segment[Len(segment)])

(***************************************************************************)
(* TrickPredictor._detect_ground_tricks                                    *)
(***************************************************************************)
WindowStarts(n) == PyRange(0, n - window_size, window_size \div 2)

Window(frames, i) == Slice(frames, i, Min(i + window_size, Len(frames)))

AllAirborne(window) == \A k \in 1..Len(window) : window[k].is_airborne

AnyAirborne(window) == \E k \in 1..Len(window) : window[k].is_airborne

AngleRange(window) ==
    LET angles == {window[k].board_angle : k \in 1..Len(window)}
    IN  SetMax(angles) - SetMin(angles)

CarvingConfidenceUncapped(angle_range) == 500 + 10 * angle_range

CarvingConfidence(angle_range) == Min(900, 500 + 10 * angle_range)

RECURSIVE GroundLoop(_, _, _)
GroundLoop(frames, starts, acc) ==
    IF starts = <<>> THEN acc
    ELSE LET window == Window(frames, Head(starts))
             rest   == Tail(starts)
         IN  IF AnyAirborne(window) THEN GroundLoop(frames, rest, acc)
             ELSE IF AngleRange(window) > CarvingRange
             THEN GroundLoop(frames, rest,
                      Append(acc, TrickPrediction("carving",
                                      CarvingConfidence(AngleRange(window)),
                                      window[1], window[Len(window)])))
             ELSE GroundLoop(frames, rest, acc)

DetectGroundTricksAsButter(frames) ==
    LET found == GroundLoop(frames, WindowStarts(Len(frames)), <<>>)
    IN  [k \in DOMAIN found |-> [found[k] EXCEPT !.trick_type = "butter"]]

_detect_ground_tricks(frames) == GroundLoop(frames, WindowStarts(Len(frames)), <<>>)

(***************************************************************************)
(* TrickPredictor.detect_tricks                                            *)
(***************************************************************************)
\* list.sort(key=start_frame): stable insertion into an ordered prefix
RECURSIVE InsertByStart(_, _)
InsertByStart(sorted, t) ==
    IF sorted = <<>> THEN <<t>>
    ELSE IF sorted[Len(sorted)].start_frame <= t.start_frame
    THEN Append(sorted, t)
    ELSE Append(InsertByStart(SubSeq(sorted, 1, Len(sorted) - 1), t), sorted[Len(sorted)])

RECURSIVE SortLoop(_, _)
SortLoop(todo, sorted) ==
    IF todo = <<>> THEN sorted
    ELSE SortLoop(Tail(todo), InsertByStart(sorted, Head(todo)))

Unsorted(ts) == ts

SortByStartFrame(ts) == SortLoop(ts, <<>>)

RECURSIVE AirborneLoop(_, _, _)
AirborneLoop(frames, segs, acc) ==
    IF segs = <<>> THEN acc
    ELSE LET start_idx == Head(segs)[1]
             end_idx   == Head(segs)[2]
             t == _classify_airborne_trick(Slice(frames, start_idx, end_idx + 1),
                                           start_idx, end_idx)
         IN  AirborneLoop(frames, Tail(segs), IF t # None THEN Append(acc, t) ELSE acc)

AirborneTricks(frames) == AirborneLoop(frames, _find_airborne_segments(frames), <<>>)

detect_tricks(frames) ==
    IF frames = <<>> THEN <<>>
    ELSE SortByStartFrame(AirborneTricks(frames) \o _detect_ground_tricks(frames))

(***************************************************************************)
(* PoseExtractor._estimate_ground_and_airborne                             *)
(***************************************************************************)
RECURSIVE InsertInt(_, _)
InsertInt(sorted, v) ==
    IF sorted = <<>> THEN <<v>>
    ELSE IF sorted[Len(sorted)] <= v THEN Append(sorted, v)
    ELSE Append(InsertInt(SubSeq(sorted, 1, Len(sorted) - 1), v), sorted[Len(sorted)])

RECURSIVE SortInts(_)
SortInts(vs) ==
    IF vs = <<>> THEN <<>>
    ELSE InsertInt(SortInts(SubSeq(vs, 1, Len(vs) - 1)), vs[Len(vs)])

RECURSIVE FootYValues(_)
FootYValues(frames) ==
    IF frames = <<>> THEN <<>>
    ELSE <<Head(frames).left_foot[2], Head(frames).right_foot[2]>>
             \o FootYValues(Tail(frames))

\* 100 * np.percentile(values, q): linear interpolation between the two order
\* statistics around the virtual index q/100 * (n - 1)
Percentile100(values, q) ==
    LET s  == SortInts(values)
        n  == Len(s)
        lo == (q * (n - 1)) \div 100
        f  == (q * (n - 1)) % 100
        hi == IF lo + 1 < n THEN lo + 1 ELSE lo
    IN  100 * s[lo + 1] + f * (s[hi + 1] - s[lo + 1])

AirborneThreshold100(frames) ==
    Percentile100(FootYValues(frames), GroundPercentile) - 100 * AirborneMargin

EitherFootAboveThreshold(pf, threshold100) ==
    \/ 100 * pf.left_foot[2] < threshold100
    \/ 100 * pf.right_foot[2] < threshold100

FeetAboveThreshold(pf, threshold100) ==
    /\ 100 * pf.left_foot[2] < threshold100
    /\ 100 * pf.right_foot[2] < threshold100

_estimate_ground_and_airborne(frames) ==
    [k \in 1..Len(frames) |->
        [frames[k] EXCEPT
            !.is_airborne = FeetAboveThreshold(frames[k], AirborneThreshold100(frames))]]

(***************************************************************************)
(* Inputs                                                                  *)
(***************************************************************************)
FarLeftHand == <<30, 40>>
FarRightHand == <<70, 40>>
LeftFoot == <<40, 80>>
RightFoot == <<60, 80>>

\* the frame at list position i with nothing happening in it
PlainFrame(i, air) ==
    PoseFrame(i, 66 * i, 0, FarLeftHand, FarRightHand, LeftFoot, RightFoot, 0, air)

\* no operation applied yet
NothingReturned ==
    /\ pc = "input"
    /\ segments = <<>>
    /\ trick = None
    /\ windows = <<>>
    /\ tricks = <<>>
    /\ airborne_threshold = 0
    /\ scores = NotReturned
    /\ result = NotReturned
    /\ predictor = TrickPredictor
    /\ history = <<>>
    /\ frame_idx = 0
    /\ labelled = <<>>
    /\ angle = NotReturned
    /\ pose_array = NotReturned
    /\ video_status = "uploaded"
    /\ requests = <<>>
    /\ analyses = <<>>

\* no operation applied yet and no video at hand
Idle ==
    /\ NothingReturned
    /\ video = <<>>
    /\ joints = <<>>
    /\ settings = Settings

(***************************************************************************)
(* _find_airborne_segments on every airborne labelling of up to            *)
(* MaxSegmentFrames frames                                                 *)
(***************************************************************************)
MaxSegmentFrames == 8

InitSegments ==
    /\ \E n \in 0..MaxSegmentFrames : \E flags \in [1..n -> BOOLEAN] :
           pose_frames = [k \in 1..n |-> PlainFrame(k - 1, flags[k])]
    /\ Idle

FindAirborneSegments ==
    /\ pc = "input"
    /\ pc' = "_find_airborne_segments"
    /\ segments' = _find_airborne_segments(pose_frames)
    /\ UNCHANGED <<pose_frames, trick, windows, tricks, airborne_threshold>>
    /\ UNCHANGED <<callVars, extractVars>>
    /\ UNCHANGED <<geometryVars, backendVars>>

SpecSegments == InitSegments /\ [][FindAirborneSegments]_vars

(***************************************************************************)
(* C1                                                                      *)
(***************************************************************************)
\* positions s..e are a maximal run of airborne frames
IsMaximalAirborneRun(frames, s, e) ==
    /\ 0 <= s /\ s <= e /\ e < Len(frames)
    /\ \A i \in s..e : frames[i + 1].is_airborne
    /\ s = 0 \/ ~frames[s].is_airborne
    /\ e = Len(frames) - 1 \/ ~frames[e + 2].is_airborne

LongMaximalRuns(frames) ==
    {se \in (0..Len(frames)) \X (0..Len(frames)) :
        IsMaximalAirborneRun(frames, se[1], se[2]) /\ se[2] - se[1] + 1 >= 3}

\* C1: _find_airborne_segments returns exactly the maximal runs of consecutive
\* airborne positions that are at least 3 long, each once and in list order; runs
\* of 1 or 2 are never returned, and a run ending at the last frame follows the
\* same rule.
C1_SegmentsAreLongMaximalRuns ==
    pc = "_find_airborne_segments" =>
        /\ {segments[k] : k \in DOMAIN segments} = LongMaximalRuns(pose_frames)
        /\ \A j, k \in DOMAIN segments : j < k => segments[j][2] < segments[k][1]

\* a run of 2 was dropped and a run of exactly 3 that ends at the last frame was kept
C1_Witness ==
    /\ pc = "_find_airborne_segments"
    /\ Len(pose_frames) = 6
    /\ [k \in 1..6 |-> pose_frames[k].is_airborne]
           = <<TRUE, TRUE, FALSE, TRUE, TRUE, TRUE>>
    /\ segments = << <<3, 5>> >>

(***************************************************************************)
(* _estimate_ground_and_airborne on every assignment of foot heights from  *)
(* FootYs to 1..MaxGroundFrames freshly extracted frames (is_airborne is   *)
(* False until the pass)                                                   *)
(***************************************************************************)
MaxGroundFrames == 3

FootYs == {40, 44, 45, 50}

GroundFrame(i, left_y, right_y) ==
    PoseFrame(i, 66 * i, 0, FarLeftHand, FarRightHand,
              <<LeftFoot[1], left_y>>, <<RightFoot[1], right_y>>, 0, FALSE)

InitGround ==
    /\ \E n \in 1..MaxGroundFrames : \E ys \in [1..n -> FootYs \X FootYs] :
           pose_frames = [k \in 1..n |-> GroundFrame(k - 1, ys[k][1], ys[k][2])]
    /\ Idle

\* extract_from_video runs the pass only on a non-empty list
EstimateGroundAndAirborne ==
    /\ pc = "input"
    /\ pose_frames # <<>>
    /\ pc' = "_estimate_ground_and_airborne"
    /\ airborne_threshold' = AirborneThreshold100(pose_frames)
    /\ pose_frames' = _estimate_ground_and_airborne(pose_frames)
    /\ UNCHANGED <<segments, trick, windows, tricks>>
    /\ UNCHANGED <<callVars, extractVars>>
    /\ UNCHANGED <<geometryVars, backendVars>>

SpecGround == InitGround /\ [][EstimateGroundAndAirborne]_vars

(***************************************************************************)
(* C2                                                                      *)
(***************************************************************************)
\* the pooled foot heights, as a function on 1..2N
PooledFootY(frames) ==
    [p \in 1..(2 * Len(frames)) |->
        IF p <= Len(frames) THEN frames[p].left_foot[2]
        ELSE frames[p - Len(frames)].right_foot[2]]

\* the value of 0-based rank j among the pooled heights, by counting
OrderStatistic(pool, j) ==
    CHOOSE x \in {pool[p] : p \in DOMAIN pool} :
        /\ Cardinality({p \in DOMAIN pool : pool[p] < x}) <= j
        /\ j < Cardinality({p \in DOMAIN pool : pool[p] <= x})

\* five times the 80th percentile: the virtual index is 4(n-1)/5
EightiethPercentile5(pool) ==
    LET n  == Cardinality(DOMAIN pool)
        lo == (4 * (n - 1)) \div 5
        f  == (4 * (n - 1)) % 5
    IN  IF f = 0 THEN 5 * OrderStatistic(pool, lo)
        ELSE (5 - f) * OrderStatistic(pool, lo) + f * OrderStatistic(pool, lo + 1)

C2_WitnessFlat ==
    /\ pc = "_estimate_ground_and_airborne"
    /\ Len(pose_frames) = 3
    /\ \A k \in DOMAIN pose_frames :
           pose_frames[k].left_foot[2] = 50 /\ pose_frames[k].right_foot[2] = 50
    /\ airborne_threshold = 4500

(***************************************************************************)
(* _classify_airborne_trick on every window of up to MaxClassifyFrames     *)
(* frames with shoulder bearings from ShoulderDirs and hands from HandPoses*)
(***************************************************************************)
MaxClassifyFrames == 3

\* rotations between them: 0, 80, 85, 150, 151 and, through bearing 260 (the
\* angle -100), 100, 180, 185, 250, 251
ShoulderDirs == {0, 80, 85, 150, 151, 260}

\* <<left hand, right hand>>; the feet are at LeftFoot and RightFoot, midpoint
\* <<50, 80>>.  Distances of the closer hand: far, 0.09, about 0.094, exactly 0.1
HandPoses ==
    {<<FarLeftHand, FarRightHand>>, << <<50, 71>>, FarRightHand>>,
     <<FarLeftHand, <<45, 72>> >>, <<FarLeftHand, <<44, 72>> >>}

ClassifyFrame(i, sdir, hands) ==
    PoseFrame(i, 66 * i, sdir, hands[1], hands[2], LeftFoot, RightFoot, 0, TRUE)

InitClassify ==
    /\ \E n \in 0..MaxClassifyFrames : \E c \in [1..n -> ShoulderDirs \X HandPoses] :
           pose_frames = [k \in 1..n |-> ClassifyFrame(k - 1, c[k][1], c[k][2])]
    /\ Idle

ClassifyAirborneTrick ==
    /\ pc = "input"
    /\ pc' = "_classify_airborne_trick"
    /\ trick' = _classify_airborne_trick(pose_frames, 0, Len(pose_frames) - 1)
    /\ UNCHANGED <<pose_frames, segments, windows, tricks, airborne_threshold>>
    /\ UNCHANGED <<callVars, extractVars>>
    /\ UNCHANGED <<geometryVars, backendVars>>

SpecClassify == InitClassify /\ [][ClassifyAirborneTrick]_vars

(***************************************************************************)
(* C3, C4, C5                                                              *)
(***************************************************************************)
\* some frame of the window has a hand closer than 0.1 to the midpoint of the feet
GrabInWindow(frames) ==
    \E k \in DOMAIN frames : \E hand \in {frames[k].left_hand, frames[k].right_hand} :
        LET mx2 == frames[k].left_foot[1] + frames[k].right_foot[1]
            my2 == frames[k].left_foot[2] + frames[k].right_foot[2]
        IN  (2 * hand[1] - mx2) * (2 * hand[1] - mx2)
                + (2 * hand[2] - my2) * (2 * hand[2] - my2) < 400

\* the angle in (-180, 180] of a bearing
PrincipalAngle(d) == CHOOSE a \in -179..180 : (a - d) % 360 = 0

\* |shoulder angle of the last frame - shoulder angle of the first frame|
RotationOfWindow(frames) ==
    IF frames = <<>> THEN 0
    ELSE LET a == PrincipalAngle(frames[Len(frames)].shoulder_dir)
             b == PrincipalAngle(frames[1].shoulder_dir)
         IN  IF a >= b THEN a - b ELSE b - a

\* C3: a window in which some frame has a hand within 0.1 of the foot midpoint is
\* classified grab_indy with confidence 0.6, whatever its rotation and length.
C3_GrabPrecedence ==
    (pc = "_classify_airborne_trick" /\ GrabInWindow(pose_frames)) =>
        /\ trick # None
        /\ trick.trick_type = "grab_indy"
        /\ trick.confidence = 600

\* a grab in a 2-frame window whose rotation is above 150
C3_Witness ==
    /\ pc = "_classify_airborne_trick"
    /\ Len(pose_frames) = 2
    /\ GrabInWindow(pose_frames)
    /\ RotationOfWindow(pose_frames) > 150
    /\ trick # None
    /\ trick.trick_type = "grab_indy"

\* C4: without a grab the type follows the rotation: jump_360 above 150, jump_180
\* above 80 up to 150, jump_straight with confidence 0.7 up to 80 when the window
\* has at least 3 frames, and no prediction up to 80 with fewer than 3 frames.
C4_TypeByRotation ==
    (pc = "_classify_airborne_trick" /\ ~GrabInWindow(pose_frames)) =>
        LET rot == RotationOfWindow(pose_frames) IN
        /\ rot > 150 => trick # None /\ trick.trick_type = "jump_360"
        /\ (80 < rot /\ rot <= 150) => trick # None /\ trick.trick_type = "jump_180"
        /\ (rot <= 80 /\ Len(pose_frames) >= 3) =>
               /\ trick # None
               /\ trick.trick_type = "jump_straight"
               /\ trick.confidence = 700
        /\ (rot <= 80 /\ Len(pose_frames) < 3) => trick = None

\* a rotation of exactly 150 is a jump_180
C4_Witness ==
    /\ pc = "_classify_airborne_trick"
    /\ ~GrabInWindow(pose_frames)
    /\ RotationOfWindow(pose_frames) = 150
    /\ trick # None
    /\ trick.trick_type = "jump_180"

\* a rotation of exactly 80 over 3 frames is a jump_straight
C4_WitnessStraight ==
    /\ pc = "_classify_airborne_trick"
    /\ ~GrabInWindow(pose_frames)
    /\ RotationOfWindow(pose_frames) = 80
    /\ Len(pose_frames) = 3
    /\ trick # None
    /\ trick.trick_type = "jump_straight"

\* a rotation of 80 over 2 frames gives no prediction
C4_WitnessNone ==
    /\ pc = "_classify_airborne_trick"
    /\ ~GrabInWindow(pose_frames)
    /\ RotationOfWindow(pose_frames) = 80
    /\ Len(pose_frames) = 2
    /\ trick = None

\* C5 as stated: the emitted confidence equals 0.5 + min(0.4, rot/500) for
\* jump_360 and 0.6 + min(0.3, rot/300) for jump_180 (151 gives 0.802).
C5_ExactConfidence ==
    (pc = "_classify_airborne_trick" /\ ~GrabInWindow(pose_frames) /\ trick # None) =>
        LET rot == RotationOfWindow(pose_frames)
            cap4 == IF rot < 200 THEN rot ELSE 200
            cap3 == IF rot < 90 THEN rot ELSE 90
        IN  /\ trick.trick_type = "jump_360" =>
                   500 * trick.confidence = 1000 * (250 + cap4)
            /\ trick.trick_type = "jump_180" =>
                   300 * trick.confidence = 1000 * (180 + cap3)

\* C5 amended: the emitted confidence is that value rounded to two decimals: a
\* whole number of hundredths within 0.005 of it (151 gives 0.8, 85 gives 0.88).
C5_RoundedConfidence ==
    (pc = "_classify_airborne_trick" /\ ~GrabInWindow(pose_frames) /\ trick # None) =>
        LET rot == RotationOfWindow(pose_frames)
            cap4 == IF rot < 200 THEN rot ELSE 200
            cap3 == IF rot < 90 THEN rot ELSE 90
            d360 == 500 * trick.confidence - 1000 * (250 + cap4)
            d180 == 300 * trick.confidence - 1000 * (180 + cap3)
        IN  /\ trick.trick_type \in {"jump_360", "jump_180"} => trick.confidence % 10 = 0
            /\ trick.trick_type = "jump_360" => -2500 < d360 /\ d360 < 2500
            /\ trick.trick_type = "jump_180" => -1500 < d180 /\ d180 < 1500
            /\ (trick.trick_type = "jump_360" /\ rot = 151) => trick.confidence = 800
            /\ (trick.trick_type = "jump_180" /\ rot = 85) => trick.confidence = 880

\* a jump_360 of rotation 151 with confidence 0.8
C5_Witness ==
    /\ pc = "_classify_airborne_trick"
    /\ ~GrabInWindow(pose_frames)
    /\ RotationOfWindow(pose_frames) = 151
    /\ trick # None
    /\ trick.trick_type = "jump_360"
    /\ trick.confidence = 800

(***************************************************************************)
(* _detect_ground_tricks on sequences of up to MaxWindowFrames frames with *)
(* at most one airborne frame and a board angle that leaves 0 at up to two *)
(* positions.  Frame indices are every second video frame (2 * position),  *)
(* as sampling with frame_interval 2 produces them.                        *)
(***************************************************************************)
MaxWindowFrames == 16

PeakAngles == {20, 21, 45}
DipAngles == {0, -10}

FrameIdx(i) == 2 * i

BoardAt(i, p, v, q, w) == IF i = p THEN v ELSE IF i = q THEN w ELSE 0

WindowFrame(i, board, air) ==
    PoseFrame(FrameIdx(i), 66 * i, 0, FarLeftHand, FarRightHand, LeftFoot, RightFoot,
              board, air)

InitWindows ==
    /\ \E n \in 0..MaxWindowFrames :
           \E a \in -1..(n - 1), p \in 0..n, q \in 0..n, v \in PeakAngles, w \in DipAngles :
               pose_frames =
                   [k \in 1..n |-> WindowFrame(k - 1, BoardAt(k - 1, p, v, q, w), k - 1 = a)]
    /\ Idle

DetectGroundTricks ==
    /\ pc = "input"
    /\ pc' = "_detect_ground_tricks"
    /\ windows' = WindowStarts(Len(pose_frames))
    /\ tricks' = _detect_ground_tricks(pose_frames)
    /\ UNCHANGED <<pose_frames, segments, trick, airborne_threshold>>
    /\ UNCHANGED <<callVars, extractVars>>
    /\ UNCHANGED <<geometryVars, backendVars>>

SpecWindows == InitWindows /\ [][DetectGroundTricks]_vars

(***************************************************************************)
(* C6, C7, C8                                                              *)
(***************************************************************************)
\* the carving predictions whose window starts at list position i
CarvingsAt(i) ==
    {k \in DOMAIN tricks :
        /\ tricks[k].trick_type = "carving"
        /\ tricks[k].start_frame = pose_frames[i + 1].frame_idx}

\* max - min of the board angle over positions i..i+9
BoardRange(i) ==
    LET diffs == {pose_frames[j + 1].board_angle - pose_frames[k + 1].board_angle :
                      j, k \in i..(i + 9)}
    IN  CHOOSE r \in diffs : \A d \in diffs : d <= r

\* C6: the ground scan visits a 10-frame window at every start i that is a
\* multiple of 5 with i + 10 <= N, the window ending at the last frame included;
\* fewer than 10 frames give no window.
C6_EveryFullWindowVisited ==
    pc = "_detect_ground_tricks" =>
        {windows[k] : k \in DOMAIN windows}
            = {i \in 0..Len(pose_frames) : i % 5 = 0 /\ i + 10 <= Len(pose_frames)}

\* C7: a visited window that holds an airborne frame yields no carving
\* prediction, and every frame between the start and the end frame of every
\* emitted carving prediction is grounded.
C7_AirborneWindowSkippedWhole ==
    pc = "_detect_ground_tricks" =>
        /\ \A w \in DOMAIN windows :
               (\E i \in windows[w]..(windows[w] + 9) : pose_frames[i + 1].is_airborne)
                   => CarvingsAt(windows[w]) = {}
        /\ \A k \in DOMAIN tricks : \A j \in DOMAIN pose_frames :
               (/\ tricks[k].start_frame <= pose_frames[j].frame_idx
                /\ pose_frames[j].frame_idx <= tricks[k].end_frame)
                   => ~pose_frames[j].is_airborne

\* window 0 holds an airborne frame and grounded frames more than 20 degrees
\* apart and is skipped, while window 5 yields a carving
C7_Witness ==
    /\ pc = "_detect_ground_tricks"
    /\ windows = <<0, 5>>
    /\ \E i \in 0..4 : pose_frames[i + 1].is_airborne
    /\ \E j, k \in 0..9 :
           /\ ~pose_frames[j + 1].is_airborne /\ ~pose_frames[k + 1].is_airborne
           /\ pose_frames[j + 1].board_angle - pose_frames[k + 1].board_angle > 20
    /\ CarvingsAt(0) = {}
    /\ CarvingsAt(5) # {}

\* C8: for every visited all-grounded window a carving prediction is emitted iff
\* the board-angle range is strictly above 20, exactly one, with confidence
\* min(0.9, 0.5 + range/100); nothing else is emitted.
C8_CarvingIffRangeAbove20 ==
    pc = "_detect_ground_tricks" =>
        /\ \A w \in DOMAIN windows :
               LET i == windows[w] IN
               (\A j \in i..(i + 9) : ~pose_frames[j + 1].is_airborne) =>
                   /\ BoardRange(i) > 20 <=> CarvingsAt(i) # {}
                   /\ Cardinality(CarvingsAt(i)) <= 1
                   /\ \A k \in CarvingsAt(i) :
                          tricks[k].confidence =
                              IF 500 + 10 * BoardRange(i) < 900
                              THEN 500 + 10 * BoardRange(i) ELSE 900
        /\ \A k \in DOMAIN tricks : \E w \in DOMAIN windows : k \in CarvingsAt(windows[w])

\* a range of 21 yields a carving of confidence 0.71
C8_Witness ==
    /\ pc = "_detect_ground_tricks"
    /\ 0 \in {windows[w] : w \in DOMAIN windows}
    /\ BoardRange(0) = 21
    /\ \E k \in CarvingsAt(0) : tricks[k].confidence = 710

\* a range of exactly 20 in an all-grounded visited window yields nothing
C8_WitnessTwenty ==
    /\ pc = "_detect_ground_tricks"
    /\ windows = <<0>>
    /\ \A j \in 0..9 : ~pose_frames[j + 1].is_airborne
    /\ BoardRange(0) = 20
    /\ tricks = <<>>

\* a range above 40 is capped at confidence 0.9
C8_WitnessCapped ==
    /\ pc = "_detect_ground_tricks"
    /\ 0 \in {windows[w] : w \in DOMAIN windows}
    /\ BoardRange(0) = 55
    /\ \E k \in CarvingsAt(0) : tricks[k].confidence = 900

(***************************************************************************)
(* detect_tricks on sequences of up to MaxDetectFrames frames with one     *)
(* airborne run and one board-angle peak.  detect_tricks takes any list of *)
(* PoseFrame, so the frame indices are taken contiguous, with gaps, or     *)
(* repeated (the unit tests pass the same frame twice).                    *)
(***************************************************************************)
MaxDetectFrames == 16

RunLengths == {0, 2, 3}
DetectPeaks == {21, 45}
IdxMaps == {"contiguous", "gapped", "repeated"}

DetectIdx(map, i) ==
    CASE map = "contiguous" -> i
      [] map = "gapped" -> 3 * i + 2
      [] map = "repeated" -> i \div 6

DetectFrame(map, i, board, air) ==
    PoseFrame(DetectIdx(map, i), 66 * i, 0, FarLeftHand, FarRightHand, LeftFoot, RightFoot,
              board, air)

InitDetect ==
    /\ \E n \in 0..MaxDetectFrames :
           \E a \in 0..n, len \in RunLengths, p \in 0..n, v \in DetectPeaks, map \in IdxMaps :
               pose_frames =
                   [k \in 1..n |->
                       DetectFrame(map, k - 1, IF k - 1 = p THEN v ELSE 0,
                                   a <= k - 1 /\ k - 1 < a + len)]
    /\ Idle

\* segments and windows record the locals airborne_segments and the loop range
DetectTricks ==
    /\ pc = "input"
    /\ pc' = "detect_tricks"
    /\ segments' = IF pose_frames = <<>> THEN <<>> ELSE _find_airborne_segments(pose_frames)
    /\ windows' = IF pose_frames = <<>> THEN <<>> ELSE WindowStarts(Len(pose_frames))
    /\ tricks' = detect_tricks(pose_frames)
    /\ UNCHANGED <<pose_frames, trick, airborne_threshold>>
    /\ UNCHANGED <<callVars, extractVars>>
    /\ UNCHANGED <<geometryVars, backendVars>>

SpecDetect == InitDetect /\ [][DetectTricks]_vars

(***************************************************************************)
(* C9                                                                      *)
(***************************************************************************)
\* the predictions in detection order: the airborne scan's, then the ground scan's
DetectionOrder == AirborneTricks(pose_frames) \o _detect_ground_tricks(pose_frames)

\* C9: the list detect_tricks returns is in non-decreasing start_frame order, and
\* the predictions of each start_frame are those detected with it, in detection
\* order (airborne-scan results before ground-scan results).
C9_SortedStableByStartFrame ==
    pc = "detect_tricks" =>
        /\ \A j, k \in DOMAIN tricks :
               j < k => tricks[j].start_frame <= tricks[k].start_frame
        /\ Len(tricks) = Len(DetectionOrder)
        /\ \A f \in {DetectionOrder[k].start_frame : k \in DOMAIN DetectionOrder} :
               SelectSeq(tricks, LAMBDA t : t.start_frame = f)
                   = SelectSeq(DetectionOrder, LAMBDA t : t.start_frame = f)
        /\ \A j, k \in DOMAIN tricks :
               (j < k /\ tricks[j].start_frame = tricks[k].start_frame)
                   => ~(tricks[j].trick_type = "carving" /\ tricks[k].trick_type # "carving")

\* the airborne scan found a jump that starts after the carving the ground scan
\* found, so sorting changed the order
C9_Witness ==
    /\ pc = "detect_tricks"
    /\ Len(tricks) = 2
    /\ tricks # DetectionOrder
    /\ tricks[1].trick_type = "carving"
    /\ tricks[2].trick_type = "jump_straight"
    /\ tricks[1].confidence > tricks[2].confidence

\* a jump and a carving with the same start_frame, the jump first
C9_WitnessTie ==
    /\ pc = "detect_tricks"
    /\ Len(tricks) = 2
    /\ tricks[1].start_frame = tricks[2].start_frame
    /\ tricks[1].trick_type = "jump_straight"
    /\ tricks[2].trick_type = "carving"

(***************************************************************************)
(* detect_tricks on the 20-frame jump scenario: frame indices 0..19,       *)
(* frames 5-9 airborne, the rest grounded; the shoulder bearings of the    *)
(* first and last airborne frame less than 80 degrees apart; no hand       *)
(* within 0.1 of the foot midpoint; any board angles.                      *)
(***************************************************************************)
ScenarioPositions == 0..19
ScenarioAirborne == 5..9

\* positions whose board angle may be 45 instead of 0
ScenarioBoardPositions == {0, 4, 7, 10, 15, 19}

\* the right hand far from the feet, or about 0.108 from their midpoint
ScenarioRightHands == {FarRightHand, <<44, 71>>}

ScenarioFrame(i, sdir, right_hand, board) ==
    PoseFrame(i, 66 * i, sdir, FarLeftHand, right_hand, LeftFoot, RightFoot, board,
              i \in ScenarioAirborne)

InitScenario ==
    /\ \E s1 \in ShoulderDirs, s2 \in ShoulderDirs, other \in ShoulderDirs,
          hand \in ScenarioRightHands, boards \in SUBSET ScenarioBoardPositions :
           /\ Abs(Atan2Deg(s2) - Atan2Deg(s1)) < Rotation180
           /\ pose_frames =
                  [k \in 1..Cardinality(ScenarioPositions) |->
                      ScenarioFrame(k - 1,
                                    IF k - 1 = 5 THEN s1 ELSE IF k - 1 = 9 THEN s2 ELSE other,
                                    IF k - 1 = 7 THEN hand ELSE FarRightHand,
                                    IF k - 1 \in boards THEN 45 ELSE 0)]
    /\ Idle

SpecScenario == InitScenario /\ [][DetectTricks]_vars

(***************************************************************************)
(* C10                                                                     *)
(***************************************************************************)
\* the hypotheses of the scenario, read off the input
IsJumpScenario(frames) ==
    /\ Len(frames) = 20
    /\ \A k \in 1..20 : frames[k].frame_idx = k - 1
    /\ \A k \in 1..20 : frames[k].is_airborne <=> (5 <= k - 1 /\ k - 1 <= 9)
    /\ RotationOfWindow(SubSeq(frames, 6, 10)) < 80
    /\ ~GrabInWindow(frames)

\* C10: in the 20-frame scenario detect_tricks returns exactly one prediction, a
\* jump_straight from frame 5 to frame 9 with confidence 0.7.
C10_ScenarioOneStraightJump ==
    (pc = "detect_tricks" /\ IsJumpScenario(pose_frames)) =>
        /\ Len(tricks) = 1
        /\ tricks[1].trick_type = "jump_straight"
        /\ tricks[1].start_frame = 5
        /\ tricks[1].end_frame = 9
        /\ tricks[1].confidence = 700

\* the scenario with board angles 45 and 0 among the grounded frames 10-19
C10_Witness ==
    /\ pc = "detect_tricks"
    /\ IsJumpScenario(pose_frames)
    /\ pose_frames[11].board_angle = 45
    /\ pose_frames[12].board_angle = 0
    /\ pose_frames[6].shoulder_dir # pose_frames[10].shoulder_dir
    /\ Len(tricks) = 1
    /\ tricks[1].trick_type = "jump_straight"

(***************************************************************************)
(* analyze_posture                                                         *)
(*                                                                         *)
(* center_of_mass[1] is carried in hundredths, knee and board angles in    *)
(* whole degrees.  A score of a list of n frames is carried as an integer  *)
(* numerator over ScoreScale(n): every intermediate score of               *)
(* analyze_posture is a whole multiple of 1/(900 n) once the standard      *)
(* deviations are rational, so the arithmetic below is exact.  A standard  *)
(* deviation is carried as n times its value, the square root of           *)
(* n * sum(x^2) - sum(x)^2, and is defined only where that root is a whole *)
(* number.  The returned scores are in tenths, the resolution of           *)
(* round(x, 1).                                                            *)
(***************************************************************************)
RECURSIVE SumSeq(_)
SumSeq(xs) == IF xs = <<>> THEN 0 ELSE Head(xs) + SumSeq(Tail(xs))

Max(a, b) == IF a >= b THEN a ELSE b

\* len(xs) * np.std(xs), the population standard deviation
StdTimesLen(xs) ==
    LET n == Len(xs)
        values == {xs[k] : k \in DOMAIN xs}
        squares == [k \in DOMAIN xs |-> xs[k] * xs[k]]
        variance == n * SumSeq(squares) - SumSeq(xs) * SumSeq(xs)
    IN  CHOOSE r \in 0..(n * (SetMax(values) - SetMin(values))) : r * r = variance

\* round(num/den, 1) in tenths; an exact tie goes to the even tenth
Round1(num, den) ==
    LET q == (10 * num) \div den
        r == (10 * num) % den
    IN  IF 2 * r > den THEN q + 1
        ELSE IF 2 * r = den THEN q + (q % 2)
        ELSE q

ScoreScale(n) == 900 * n

\* the score 100 over ScoreScale(n)
Full(n) == 100 * ScoreScale(n)

com_y(frames) == [k \in DOMAIN frames |-> frames[k].center_of_mass_y]

\* max(0, min(100, 100 - com_variation * 500)), over ScoreScale
BaseStability(frames) ==
    LET n == Len(frames)
    IN  Max(0, Min(Full(n), Full(n) - 4500 * StdTimesLen(com_y(frames))))

\* 2 * len * avg_knee: the sum of all left and right knee angles
KneeSum(frames) ==
    SumSeq([k \in DOMAIN frames |-> frames[k].knee_angle_left])
        + SumSeq([k \in DOMAIN frames |-> frames[k].knee_angle_right])

AvgKneeAtLeast(frames, degrees) == KneeSum(frames) >= 2 * Len(frames) * degrees

\* avg_knee > degrees
AvgKneeAbove(frames, degrees) == KneeSum(frames) > 2 * Len(frames) * degrees

\* avg_knee < degrees
AvgKneeBelow(frames, degrees) == KneeSum(frames) < 2 * Len(frames) * degrees

StraightKnee == 170
DeepKnee == 120

\* the line the if / elif / else on avg_knee appends
KneeLine(frames) ==
    IF AvgKneeAbove(frames, StraightKnee) THEN "knee_lower_stance"
    ELSE IF AvgKneeBelow(frames, DeepKnee) THEN "knee_excessive_bend"
    ELSE "knee_ok"

\* stability after the knee branch: stability *= 0.8 when avg_knee > 170
Stability(frames) ==
    IF AvgKneeAbove(frames, StraightKnee)
    THEN (4 * BaseStability(frames)) \div 5
    ELSE BaseStability(frames)

board_angles(frames) == [k \in DOMAIN frames |-> Abs(frames[k].board_angle)]

EdgeVariation == 15

\* board_variation > 15
BoardVariationHigh(frames) ==
    StdTimesLen(board_angles(frames)) > EdgeVariation * Len(frames)

\* len * airborne_ratio
AirborneCount(frames) == Cardinality({k \in DOMAIN frames : frames[k].is_airborne})

DifficultyUncapped(frames) ==
    900 * (200 * AirborneCount(frames) + 2 * StdTimesLen(board_angles(frames)))

\* min(100, airborne_ratio * 200 + board_variation * 2), over ScoreScale
Difficulty(frames) ==
    Min(Full(Len(frames)),
        900 * (200 * AirborneCount(frames) + 2 * StdTimesLen(board_angles(frames))))

\* min(100, avg_knee / 1.8), over ScoreScale
KneeScore(frames) == Min(Full(Len(frames)), 250 * KneeSum(frames))

\* stability * 0.4 + difficulty * 0.3 + min(100, avg_knee / 1.8) * 0.3, over ScoreScale
Overall(frames) ==
    (4 * Stability(frames) + 3 * Difficulty(frames) + 3 * KneeScore(frames)) \div 10

ExcellentOverall == 80
GoodOverall == 60

\* the line chosen by the if / elif / else on overall
SummaryLine(frames) ==
    LET n == Len(frames)
    IN  IF Overall(frames) >= ExcellentOverall * ScoreScale(n) THEN "summary_excellent"
        ELSE IF Overall(frames) >= GoodOverall * ScoreScale(n) THEN "summary_good"
        ELSE "summary_basics"

AppendLast(lines, line) == lines \o <<line>>

\* feedback.insert(0, line)
InsertFirst(lines, line) == <<line>> \o lines

\* the feedback list as analyze_posture builds it
Feedback(frames) ==
    LET knee == <<KneeLine(frames)>>
        edge == IF BoardVariationHigh(frames) THEN knee \o <<"edge_control">> ELSE knee
    IN  InsertFirst(edge, SummaryLine(frames))

NoPoseScoresSilent == AnalysisScores(0, 0, 0, <<>>)

\* the return value for an empty list
NoPoseScores == AnalysisScores(0, 0, 0, <<"no_pose">>)

\* no score of the list lies exactly halfway between two tenths.  On such a tie
\* round(x, 1) follows the double nearest to the score, which exact arithmetic does
\* not determine; the lists drawn below are those without a tie.
IsTie(num, den) == 2 * ((10 * num) % den) = den

RoundsClean(frames) ==
    IF frames = <<>> THEN TRUE
    ELSE LET scale == ScoreScale(Len(frames))
         IN  /\ ~IsTie(Overall(frames), scale)
             /\ ~IsTie(Difficulty(frames), scale)
             /\ ~IsTie(Stability(frames), scale)

analyze_posture(frames) ==
    IF frames = <<>> THEN NoPoseScores
    ELSE LET scale == ScoreScale(Len(frames))
         IN  AnalysisScores(Round1(Overall(frames), scale),
                            Round1(Difficulty(frames), scale),
                            Round1(Stability(frames), scale),
                            Feedback(frames))

(***************************************************************************)
(* ReridePipeline.analyze, from the list extract_from_video returned to    *)
(* the PipelineResult.  The output paths are None in the no-person result  *)
(* and do not enter the other fields; they are left out.                   *)
(***************************************************************************)
PipelineResult(found, scored, total, airborne, frames) ==
    [tricks |-> found, scores |-> scored, total_frames |-> total,
     airborne_frames |-> airborne, pose_frames |-> frames]

analyze(extracted) ==
    IF extracted = <<>>
    THEN PipelineResult(<<>>, AnalysisScores(0, 0, 0, <<"no_person">>), 0, 0, <<>>)
    ELSE PipelineResult(detect_tricks(extracted), analyze_posture(extracted),
                        Len(extracted), AirborneCount(extracted), extracted)

(***************************************************************************)
(* analyze_posture, detect_tricks and ReridePipeline.analyze on lists of   *)
(* up to MaxPostureFrames frames.  The centre of mass is at 0.5 except in  *)
(* the first few frames, the board angle takes one value in the leading    *)
(* frames and another in the trailing ones, the leading frames are         *)
(* airborne, and both knees have one angle except the right knee of the    *)
(* first frame.  The numbers of displaced frames are those for which the   *)
(* standard deviation is rational.                                         *)
(***************************************************************************)
MaxPostureFrames == 5

PostureFrame(i, com, knee_left, knee_right, board, air) ==
    [frame_idx |-> i, timestamp_ms |-> 66 * i, shoulder_dir |-> 0,
     left_hand |-> FarLeftHand, right_hand |-> FarRightHand,
     left_foot |-> LeftFoot, right_foot |-> RightFoot,
     board_angle |-> board, is_airborne |-> air,
     center_of_mass_y |-> com, knee_angle_left |-> knee_left,
     knee_angle_right |-> knee_right]

\* the k for which k of n values displaced by d have standard deviation a multiple of d/n
SquareSplits(n) == {k \in 0..n : \E r \in 0..n : r * r = k * (n - k)}

ComShifts == {2, 10, 50}
BoardPairs == {<<0, 30>>, <<0, -31>>, <<30, -30>>, <<0, 60>>}
KneeAngles == {0, 60, 120, 170, 180}
KneeOffsets == {-1, 0, 1}

InitPosture ==
    /\ \E n \in 0..MaxPostureFrames :
           \E kc \in SquareSplits(n), shift \in ComShifts,
              kb \in SquareSplits(n), pair \in BoardPairs,
              m \in 0..n, knee \in KneeAngles, offset \in KneeOffsets :
               /\ knee + offset \in 0..180
               /\ pose_frames =
                      [k \in 1..n |->
                          PostureFrame(k - 1,
                                       IF k <= kc THEN 50 + shift ELSE 50,
                                       knee,
                                       IF k = 1 THEN knee + offset ELSE knee,
                                       IF k > n - kb THEN pair[2] ELSE pair[1],
                                       k <= m)]
               /\ RoundsClean(pose_frames)
    /\ Idle

AnalyzePosture ==
    /\ pc = "input"
    /\ pc' = "analyze_posture"
    /\ scores' = analyze_posture(pose_frames)
    /\ UNCHANGED <<pose_frames, segments, trick, windows, tricks, airborne_threshold>>
    /\ UNCHANGED <<result, predictor, history, extractVars>>
    /\ UNCHANGED <<geometryVars, backendVars>>

PipelineAnalyze ==
    /\ pc = "input"
    /\ pc' = "analyze"
    /\ result' = analyze(pose_frames)
    /\ UNCHANGED <<pose_frames, segments, trick, windows, tricks, airborne_threshold>>
    /\ UNCHANGED <<scores, predictor, history, extractVars>>
    /\ UNCHANGED <<geometryVars, backendVars>>

NextPosture == AnalyzePosture \/ DetectTricks \/ PipelineAnalyze

SpecPosture == InitPosture /\ [][NextPosture]_vars

\* C11: on an empty frame list detect_tricks returns the empty list,
\* analyze_posture returns three zero scores and exactly one feedback line, and
\* ReridePipeline.analyze returns no tricks, three zero scores with exactly one
\* feedback line, total_frames 0 and airborne_frames 0
ZeroScoresOneLine(s) ==
    /\ s.overall_score = 0
    /\ s.difficulty_score = 0
    /\ s.stability_score = 0
    /\ Len(s.feedback) = 1

C11_EmptyInputIsSentinel ==
    pose_frames = <<>> =>
        /\ pc = "detect_tricks" => tricks = <<>>
        /\ pc = "analyze_posture" => ZeroScoresOneLine(scores)
        /\ pc = "analyze" =>
               /\ result.tricks = <<>>
               /\ ZeroScoresOneLine(result.scores)
               /\ result.total_frames = 0
               /\ result.airborne_frames = 0

C11_Witness ==
    /\ pose_frames = <<>>
    /\ pc = "analyze_posture"
    /\ scores.feedback = <<"no_pose">>

C11_WitnessPipeline ==
    /\ pose_frames = <<>>
    /\ pc = "analyze"
    /\ result.scores.feedback = <<"no_person">>

\* C12: the three scores analyze_posture returns lie in [0, 100] (0..1000 tenths),
\* for the empty list and for every non-empty list with knee angles in [0, 180]
KneeAnglesInRange ==
    \A k \in DOMAIN pose_frames :
        /\ pose_frames[k].knee_angle_left \in 0..180
        /\ pose_frames[k].knee_angle_right \in 0..180

C12_ScoresWithinZeroAndHundred ==
    (pc = "analyze_posture" /\ KneeAnglesInRange) =>
        /\ scores.overall_score \in 0..1000
        /\ scores.difficulty_score \in 0..1000
        /\ scores.stability_score \in 0..1000

\* both clamps are reached: a centre of mass moving by 0.5 drives stability to 0
\* and a half-airborne list drives difficulty to 100
C12_Witness ==
    /\ pc = "analyze_posture"
    /\ pose_frames # <<>>
    /\ KneeAnglesInRange
    /\ scores.stability_score = 0
    /\ scores.difficulty_score = 1000
    /\ scores.overall_score > 0

\* C13: for a non-empty list the feedback has the summary line at position 0,
\* exactly one of the three knee lines at position 1, and the edge-control line
\* at position 2 exactly when the standard deviation of |board_angle| exceeds 15;
\* it has 2 or 3 lines
SummaryLines == {"summary_excellent", "summary_good", "summary_basics"}
KneeLines == {"knee_lower_stance", "knee_excessive_bend", "knee_ok"}

AbsBoard(k) == Abs(pose_frames[k].board_angle)

\* variance of |board_angle| above 15^2, as n * sum(x^2) - sum(x)^2 > (15 n)^2
BoardDeviationAbove15 ==
    LET n == Len(pose_frames)
        total == SumSeq([k \in 1..n |-> AbsBoard(k)])
        squares == SumSeq([k \in 1..n |-> AbsBoard(k) * AbsBoard(k)])
    IN  n * squares - total * total > 225 * n * n

C13_FeedbackLayout ==
    (pc = "analyze_posture" /\ pose_frames # <<>>) =>
        /\ Len(scores.feedback) \in {2, 3}
        /\ scores.feedback[1] \in SummaryLines
        /\ scores.feedback[2] \in KneeLines
        /\ Len(scores.feedback) = 3 <=> BoardDeviationAbove15
        /\ Len(scores.feedback) = 3 => scores.feedback[3] = "edge_control"

\* board angles 0 and -31 in two frames deviate by 15.5: three lines
C13_Witness ==
    /\ pc = "analyze_posture"
    /\ Len(pose_frames) = 2
    /\ AbsBoard(1) = 0
    /\ AbsBoard(2) = 31
    /\ Len(scores.feedback) = 3
    /\ scores.feedback[3] = "edge_control"

\* board angles 0 and 30 in two frames deviate by exactly 15: two lines
C13_WitnessFifteen ==
    /\ pc = "analyze_posture"
    /\ Len(pose_frames) = 2
    /\ AbsBoard(1) = 0
    /\ AbsBoard(2) = 30
    /\ Len(scores.feedback) = 2

\* C14: the summary line agrees with the overall score analyze_posture returns:
\* excellent from 80.0 up, good from 60.0 up to below 80.0, basics below 60.0
SummaryOfReturnedScore ==
    IF scores.overall_score >= 800 THEN "summary_excellent"
    ELSE IF scores.overall_score >= 600 THEN "summary_good"
    ELSE "summary_basics"

C14_SummaryAgreesWithReturnedScore ==
    (pc = "analyze_posture" /\ pose_frames # <<>>) =>
        scores.feedback[1] = SummaryOfReturnedScore

\* C15: an average knee angle strictly above 170 appends the lower-stance line and
\* multiplies stability by 0.8 (the returned stability is at most 80); strictly
\* below 120 appends the excessive-bending line; from 120 to 170, both included,
\* appends the affirming line; in the last two cases stability is not reduced
KneeTotal ==
    SumSeq([k \in DOMAIN pose_frames |->
                pose_frames[k].knee_angle_left + pose_frames[k].knee_angle_right])

\* the average knee angle is KneeTotal / (2 n)
KneeAverageAbove170 == KneeTotal > 340 * Len(pose_frames)
KneeAverageBelow120 == KneeTotal < 240 * Len(pose_frames)

UnreducedStability == Round1(BaseStability(pose_frames), ScoreScale(Len(pose_frames)))
ReducedStability == Round1(4 * BaseStability(pose_frames), 5 * ScoreScale(Len(pose_frames)))

C15_KneeBranch ==
    (pc = "analyze_posture" /\ pose_frames # <<>>) =>
        /\ KneeAverageAbove170 =>
               /\ scores.feedback[2] = "knee_lower_stance"
               /\ scores.stability_score = ReducedStability
               /\ scores.stability_score <= 800
        /\ KneeAverageBelow120 =>
               /\ scores.feedback[2] = "knee_excessive_bend"
               /\ scores.stability_score = UnreducedStability
        /\ (~KneeAverageAbove170 /\ ~KneeAverageBelow120) =>
               /\ scores.feedback[2] = "knee_ok"
               /\ scores.stability_score = UnreducedStability

\* an average of 170.25 reduces a stability of 100 to 80
C15_Witness ==
    /\ pc = "analyze_posture"
    /\ Len(pose_frames) = 2
    /\ KneeTotal = 681
    /\ UnreducedStability = 1000
    /\ scores.stability_score = 800
    /\ scores.feedback[2] = "knee_lower_stance"

\* an average of exactly 170 is affirmed and keeps a stability of 100
C15_WitnessAt170 ==
    /\ pc = "analyze_posture"
    /\ pose_frames # <<>>
    /\ KneeTotal = 340 * Len(pose_frames)
    /\ scores.stability_score = 1000
    /\ scores.feedback[2] = "knee_ok"

\* an average of exactly 120 is affirmed, one of 119.75 is not
C15_WitnessAt120 ==
    /\ pc = "analyze_posture"
    /\ pose_frames # <<>>
    /\ KneeTotal = 240 * Len(pose_frames)
    /\ scores.feedback[2] = "knee_ok"

C15_WitnessBelow120 ==
    /\ pc = "analyze_posture"
    /\ Len(pose_frames) = 2
    /\ KneeTotal = 479
    /\ scores.stability_score = 1000
    /\ scores.feedback[2] = "knee_excessive_bend"

(***************************************************************************)
(* Calls of detect_tricks and analyze_posture on one TrickPredictor.  A    *)
(* call is entered with its argument and returns later, so calls overlap   *)
(* in every order; history holds one record per call, its return value     *)
(* filled in when the call returns.  Neither method reads or assigns an    *)
(* attribute of self: the attributes after a call are those before it.     *)
(***************************************************************************)
MaxCalls == 3

\* three airborne frames with bent knees; three grounded frames with straight knees
JumpList == [k \in 1..3 |-> PostureFrame(k - 1, 50, 120, 120, 0, TRUE)]
StandList == [k \in 1..3 |-> PostureFrame(k - 1, 50, 180, 180, 0, FALSE)]
CallInputs == {<<>>, JumpList, StandList}
Methods == {"detect_tricks", "analyze_posture"}

\* a result remembered on the instance and handed back to the next call of the method
InvokeReusingLast(self, method, frames) ==
    IF "last" \in DOMAIN self.model /\ self.model.method = method
    THEN [self |-> self, returned |-> self.model.last]
    ELSE LET fresh == IF method = "detect_tricks" THEN detect_tricks(frames)
                      ELSE analyze_posture(frames)
         IN  [self |-> [self EXCEPT !.model = [training |-> FALSE, method |-> method,
                                                last |-> fresh]],
              returned |-> fresh]

\* the return value of self.method(frames) and the attributes of self afterwards
Invoke(self, method, frames) ==
    [self |-> self,
     returned |-> IF method = "detect_tricks" THEN detect_tricks(frames)
                  ELSE analyze_posture(frames)]

EnterCall ==
    /\ Len(history) < MaxCalls
    /\ \E method \in Methods, frames \in CallInputs :
           history' = Append(history, [method |-> method, argument |-> frames,
                                       state |-> "entered", returned |-> NotReturned])
    /\ UNCHANGED <<pose_frames, pc, segments, trick, windows, tricks, airborne_threshold>>
    /\ UNCHANGED <<scores, result, predictor, extractVars>>
    /\ UNCHANGED <<geometryVars, backendVars>>

ReturnCall ==
    /\ \E c \in DOMAIN history :
           /\ history[c].state = "entered"
           /\ LET call == Invoke(predictor, history[c].method, history[c].argument)
              IN  /\ history' = [history EXCEPT ![c].state = "returned",
                                                ![c].returned = call.returned]
                  /\ predictor' = call.self
    /\ UNCHANGED <<pose_frames, pc, segments, trick, windows, tricks, airborne_threshold>>
    /\ UNCHANGED <<scores, result, extractVars>>
    /\ UNCHANGED <<geometryVars, backendVars>>

InitCalls ==
    /\ pose_frames = <<>>
    /\ Idle

NextCalls == EnterCall \/ ReturnCall

SpecCalls == InitCalls /\ [][NextCalls]_vars

\* C16: two calls of the same method on identical frame lists return identical
\* values, whatever calls on other lists were made before, between or overlapping
\* with them on the same TrickPredictor, and no call changes an attribute of it
HasReturned(c) == history[c].state = "returned"

MaxVideoFrames == 4

sample_fps == 15
FrameRates == {15, 30}
NoPose == <<>>
VideoContents == {NoPose, <<50, 50>>, <<40, 40>>}

\* max(1, int(original_fps / sample_fps))
frame_interval == Max(1, video.fps \div sample_fps)

\* the frame numbered by its position counted from 1
ProcessFrameCountingFromOne(content, idx, ts) ==
    IF content = NoPose THEN NoPose
    ELSE [GroundFrame(idx + 1, content[1], content[2]) EXCEPT !.timestamp_ms = ts]

\* _process_frame: None (here NoPose) without a detection, else a PoseFrame, not airborne
_process_frame(content, idx, ts) ==
    IF content = NoPose THEN NoPose
    ELSE [GroundFrame(idx, content[1], content[2]) EXCEPT !.timestamp_ms = ts]

EstimationWhileReading(at) == at \in {"reading", "released"}

\* the control points of extract_from_video at which the pass is called
EstimationEnabled(at) == at = "released"

InitExtract ==
    /\ \E n \in 0..MaxVideoFrames : \E contents \in [1..n -> VideoContents] :
           \E fps \in FrameRates : video = [fps |-> fps, frames |-> contents]
    /\ pose_frames = <<>>
    /\ joints = <<>>
    /\ settings = Settings
    /\ NothingReturned

\* cap = cv2.VideoCapture(video_path); pose_frames = []; frame_idx = 0
OpenVideo ==
    /\ pc = "input"
    /\ pc' = "reading"
    /\ frame_idx' = 0
    /\ pose_frames' = <<>>
    /\ labelled' = <<>>
    /\ UNCHANGED <<segments, trick, windows, tricks, airborne_threshold, callVars, video>>
    /\ UNCHANGED <<geometryVars, backendVars>>

\* one iteration of the loop with ret true
ReadFrame ==
    /\ pc = "reading"
    /\ frame_idx < Len(video.frames)
    /\ LET pose_frame == _process_frame(video.frames[frame_idx + 1], frame_idx,
                                        (1000 * frame_idx) \div video.fps)
       IN  IF frame_idx % frame_interval = 0 /\ pose_frame # NoPose
           THEN /\ pose_frames' = Append(pose_frames, pose_frame)
                /\ labelled' = Append(labelled, 0)
           ELSE UNCHANGED <<pose_frames, labelled>>
    /\ frame_idx' = frame_idx + 1
    /\ UNCHANGED <<pc, segments, trick, windows, tricks, airborne_threshold, callVars, video>>
    /\ UNCHANGED <<geometryVars, backendVars>>

\* ret false: break, cap.release()
EndOfVideo ==
    /\ pc = "reading"
    /\ frame_idx = Len(video.frames)
    /\ pc' = "released"
    /\ UNCHANGED <<pose_frames, segments, trick, windows, tricks, airborne_threshold>>
    /\ UNCHANGED <<callVars, extractVars>>
    /\ UNCHANGED <<geometryVars, backendVars>>

\* if pose_frames: self._estimate_ground_and_airborne(pose_frames)
EstimatePass ==
    /\ EstimationEnabled(pc)
    /\ pose_frames # <<>>
    /\ pc' = IF pc = "released" THEN "estimated" ELSE pc
    /\ airborne_threshold' = AirborneThreshold100(pose_frames)
    /\ pose_frames' = _estimate_ground_and_airborne(pose_frames)
    /\ labelled' = [k \in DOMAIN labelled |-> labelled[k] + 1]
    /\ UNCHANGED <<segments, trick, windows, tricks, callVars, video, frame_idx>>
    /\ UNCHANGED <<geometryVars, backendVars>>

\* return pose_frames
ReturnFrames ==
    /\ \/ pc = "estimated"
       \/ pc = "released" /\ pose_frames = <<>>
    /\ pc' = "extract_from_video"
    /\ UNCHANGED <<pose_frames, segments, trick, windows, tricks, airborne_threshold>>
    /\ UNCHANGED <<callVars, extractVars>>
    /\ UNCHANGED <<geometryVars, backendVars>>

NextExtract == OpenVideo \/ ReadFrame \/ EndOfVideo \/ EstimatePass \/ ReturnFrames

SpecExtract == InitExtract /\ [][NextExtract]_vars

\* C17: no extracted frame has its airborne flag set by the pass before the
\* reading loop has read the last video frame and ended, none has it set twice,
\* and every frame of the returned list has had it set exactly once
ReadingFinished ==
    /\ pc \in {"released", "estimated", "extract_from_video"}
    /\ frame_idx = Len(video.frames)

StrictlyIncreasingIdx ==
    \A i, j \in DOMAIN pose_frames :
        i < j => pose_frames[i].frame_idx < pose_frames[j].frame_idx

\* the windows, as pairs of first and last list position, a prediction of type t can stem from
WindowsOfType(t) ==
    IF t = "carving"
    THEN {<<windows[w], windows[w] + 9>> : w \in DOMAIN windows}
    ELSE {segments[s] : s \in DOMAIN segments}

SpansWindow(t, w) ==
    LET first == pose_frames[w[1] + 1]
        last == pose_frames[w[2] + 1]
    IN  /\ t.start_frame = first.frame_idx
        /\ t.end_frame = last.frame_idx
        /\ t.start_time_ms = first.timestamp_ms
        /\ t.end_time_ms = last.timestamp_ms

C18_PredictionSpansItsWindow ==
    (pc = "detect_tricks" /\ StrictlyIncreasingIdx) =>
        \A k \in DOMAIN tricks :
            /\ \E w \in WindowsOfType(tricks[k].trick_type) : SpansWindow(tricks[k], w)
            /\ tricks[k].start_frame <= tricks[k].end_frame

\* with gapped indices (3 i + 2) the jump over positions 1..3 spans frames 5..11
\* and the carving over positions 5..14 spans frames 17..44
C18_Witness ==
    /\ pc = "detect_tricks"
    /\ StrictlyIncreasingIdx
    /\ Len(tricks) = 2
    /\ segments = <<<<1, 3>>>>
    /\ tricks[1].trick_type = "jump_straight"
    /\ tricks[1].start_frame = 5
    /\ tricks[1].end_frame = 11
    /\ tricks[1].end_time_ms = 198
    /\ tricks[2].trick_type = "carving"
    /\ tricks[2].start_frame = 17
    /\ tricks[2].end_frame = 44

(***************************************************************************)
(* detect_tricks over the whole circle of shoulder bearings and board      *)
(* angles: ten grounded frames whose board angle dips in the first and     *)
(* peaks in the second, followed by an airborne run of up to MaxRunFrames  *)
(* frames that turns from one bearing to another, with or without a grab   *)
(* in its first frame.                                                     *)
(***************************************************************************)
MaxRunFrames == 3

\* every 15 degrees, and the two ends of (-180, 180]
Bearings == {-179, 180} \cup {15 * d : d \in -11..11}
BoardDips == {-179, -90, 0}
BoardPeaks == {20, 21, 60, 180}
GrabHands == << <<50, 71>>, FarRightHand>>
FarHands == <<FarLeftHand, FarRightHand>>

InitKinds ==
    /\ \E len \in 2..MaxRunFrames :
           \E from \in Bearings, to \in Bearings, dip \in BoardDips, peak \in BoardPeaks,
              hands \in {FarHands, GrabHands} :
               pose_frames =
                   [k \in 1..(window_size + len) |->
                       IF k <= window_size
                       THEN PoseFrame(k - 1, 66 * (k - 1), 0, FarLeftHand, FarRightHand,
                                      LeftFoot, RightFoot,
                                      IF k = 1 THEN dip ELSE IF k = 2 THEN peak ELSE 0,
                                      FALSE)
                       ELSE ClassifyFrame(k - 1,
                                          IF k = window_size + 1 THEN from
                                          ELSE IF k = window_size + len THEN to ELSE 0,
                                          IF k = window_size + 1 THEN hands ELSE FarHands)]
    /\ Idle

SpecKinds == InitKinds /\ [][DetectTricks]_vars

\* C19: every prediction detect_tricks returns has a confidence in [0, 1]
\* (0..1000 thousandths), over rotations from 0 to 359 and board ranges from 20 to 359
C19_ConfidenceWithinUnitInterval ==
    pc = "detect_tricks" =>
        \A k \in DOMAIN tricks : tricks[k].confidence \in 0..1000

RunRotation ==
    Abs(Atan2Deg(pose_frames[Len(pose_frames)].shoulder_dir)
            - Atan2Deg(pose_frames[window_size + 1].shoulder_dir))

\* a carving over a board range of 359 and a jump_360 over a rotation of 359, both at 0.9
C19_Witness ==
    /\ pc = "detect_tricks"
    /\ pose_frames[2].board_angle - pose_frames[1].board_angle = 359
    /\ RunRotation = 359
    /\ Len(tricks) = 2
    /\ tricks[1].trick_type = "carving"
    /\ tricks[1].confidence = 900
    /\ tricks[2].trick_type = "jump_360"
    /\ tricks[2].confidence = 900

\* C20: every prediction detect_tricks returns has one of the five types
\* grab_indy, jump_180, jump_360, jump_straight, carving, and each of the five is
\* one of the twelve names of TRICK_CLASSES
TRICK_CLASSES ==
    <<"straight_ride", "ollie", "nollie", "jump_straight", "jump_180", "jump_360",
      "grab_indy", "grab_mute", "rail_50_50", "rail_boardslide", "butter", "carving">>

EmittedTypes == {"grab_indy", "jump_180", "jump_360", "jump_straight", "carving"}

C20_TypesEmitted ==
    /\ Len(TRICK_CLASSES) = 12
    /\ EmittedTypes \subseteq {TRICK_CLASSES[c] : c \in DOMAIN TRICK_CLASSES}
    /\ pc = "detect_tricks" =>
           \A k \in DOMAIN tricks : tricks[k].trick_type \in EmittedTypes

C20_Witness ==
    /\ pc = "detect_tricks"
    /\ Len(tricks) = 2
    /\ tricks[1].trick_type = "carving"
    /\ tricks[2].trick_type = "grab_indy"

C20_WitnessJump180 ==
    /\ pc = "detect_tricks"
    /\ \E k \in DOMAIN tricks : tricks[k].trick_type = "jump_180"

C20_WitnessJumpStraight ==
    /\ pc = "detect_tricks"
    /\ \E k \in DOMAIN tricks : tricks[k].trick_type = "jump_straight"

(***************************************************************************)
(* _calculate_angle: the angle at joint b between the arms b->a and b->c.  *)
(* Joints are triples of whole coordinate units; angles are carried in     *)
(* hundredths of a degree.                                                 *)
(***************************************************************************)
VecSub(u, v) == <<u[1] - v[1], u[2] - v[2], u[3] - v[3]>>

Dot(u, v) == u[1] * v[1] + u[2] * v[2] + u[3] * v[3]

\* the square of np.linalg.norm(u)
NormSq(u) == Dot(u, u)

\* the value no angle takes: what arccos returns for the quotient 0 / 0
NaN == -1

\* the quotient without the 1e-8 in its denominator
CosineUnguarded(ba, bc) ==
    [num |-> Dot(ba, bc), norms_sq |-> NormSq(ba) * NormSq(bc),
     guarded |-> FALSE, clipped |-> FALSE]

\* the quotient of the magnitude of the dot product
CosineUnsigned(ba, bc) ==
    [num |-> Abs(Dot(ba, bc)), norms_sq |-> NormSq(ba) * NormSq(bc),
     guarded |-> TRUE, clipped |-> FALSE]

\* cosine = np.dot(ba, bc) / (norm(ba) * norm(bc) + 1e-8): the quotient is kept as
\* its numerator and the square of the product of the norms; guarded records the
\* 1e-8 added to the denominator
Cosine(ba, bc) ==
    [num |-> Dot(ba, bc), norms_sq |-> NormSq(ba) * NormSq(bc),
     guarded |-> TRUE, clipped |-> FALSE]

\* np.clip(cosine, -1.0, 1.0): a quotient of magnitude above 1 becomes exactly 1 or -1
Clip(cosine) ==
    IF cosine.num * cosine.num > cosine.norms_sq
    THEN [num |-> IF cosine.num > 0 THEN 1 ELSE -1, norms_sq |-> 1,
          guarded |-> cosine.guarded, clipped |-> TRUE]
    ELSE cosine

\* np.degrees(np.arccos(n / (sqrt(d) + 1e-8))) for n >= 0, to the nearest hundredth,
\* at the quotients that arms with coordinates in -1..1 produce; with the 1e-8 the
\* quotient of parallel arms stays below 1: 0.0081, 0.0057 and 0.0047 degrees
AcuteDegrees(n, d) ==
    CASE n = 0 -> 9000
      [] <<n, d>> = <<1, 1>> -> 1
      [] <<n, d>> = <<2, 4>> -> 1
      [] <<n, d>> = <<3, 9>> -> 0
      [] <<n, d>> = <<1, 2>> -> 4500
      [] <<n, d>> = <<1, 3>> -> 5474
      [] <<n, d>> = <<1, 4>> -> 6000
      [] <<n, d>> = <<1, 6>> -> 6591
      [] <<n, d>> = <<1, 9>> -> 7053
      [] <<n, d>> = <<2, 6>> -> 3526
      [] <<n, d>> = <<2, 9>> -> 4819

\* np.degrees(np.arccos(cosine)); arccos(-x) = 180 - arccos(x)
ArccosDegrees(cosine) ==
    IF cosine.norms_sq = 0 /\ ~cosine.guarded THEN NaN
    ELSE IF cosine.clipped \/ (~cosine.guarded /\ cosine.num * cosine.num = cosine.norms_sq)
         THEN (IF cosine.num > 0 THEN 0 ELSE 18000)
    ELSE IF cosine.num >= 0 THEN AcuteDegrees(cosine.num, cosine.norms_sq)
    ELSE 18000 - AcuteDegrees(-cosine.num, cosine.norms_sq)

_calculate_angle(a, b, c) ==
    LET ba == VecSub(a, b)
        bc == VecSub(c, b)
    IN  ArccosDegrees(Clip(Cosine(ba, bc)))

(***************************************************************************)
(* _calculate_angle on every triple whose arms have coordinates in -1..1   *)
(***************************************************************************)
ArmCoordinates == {-1, 0, 1}
Arms == ArmCoordinates \X ArmCoordinates \X ArmCoordinates
Origin == <<0, 0, 0>>
KneeJoints == {Origin, <<1, 1, 0>>}
VecAdd(u, v) == <<u[1] + v[1], u[2] + v[2], u[3] + v[3]>>

InitAngle ==
    /\ NothingReturned
    /\ video = <<>>
    /\ settings = Settings
    /\ pose_frames = <<>>
    /\ \E b \in KneeJoints : \E ba \in Arms : \E bc \in Arms :
           joints = <<VecAdd(b, ba), b, VecAdd(b, bc)>>

CalculateAngle ==
    /\ pc = "input"
    /\ joints # <<>>
    /\ angle' = _calculate_angle(joints[1], joints[2], joints[3])
    /\ pc' = "_calculate_angle"
    /\ UNCHANGED <<pose_frames, segments, trick, windows, tricks, airborne_threshold>>
    /\ UNCHANGED <<callVars, extractVars, joints, pose_array, backendVars>>

SpecAngle == InitAngle /\ [][CalculateAngle]_vars

AngleReturned == pc = "_calculate_angle"

\* C21: the angle returned lies between 0 and 180 degrees; for the arms (1,0,0) and
\* (0,1,0) at the origin it is within 0.1 of 90, and for the opposite arms (1,0,0)
\* and (-1,0,0) within 0.1 of 180
C21_AngleWithinRange ==
    AngleReturned =>
        /\ angle \in 0..18000
        /\ joints = <<(<<1, 0, 0>>), Origin, (<<0, 1, 0>>)>> => Abs(angle - 9000) < 10
        /\ joints = <<(<<1, 0, 0>>), Origin, (<<-1, 0, 0>>)>> => Abs(angle - 18000) < 10

C21_Witness ==
    /\ AngleReturned
    /\ joints = <<(<<1, 0, 0>>), Origin, (<<-1, 0, 0>>)>>

C21_WitnessPerpendicular ==
    /\ AngleReturned
    /\ joints = <<(<<1, 0, 0>>), Origin, (<<0, 1, 0>>)>>

\* an arm of zero length: two of the three joints coincide
Degenerate == joints[1] = joints[2] \/ joints[3] = joints[2]

\* C22 as stated: with an arm of zero length the angle returned is a boundary of
\* the range, 0 or 180 degrees
C22_DegenerateIsBoundary ==
    (AngleReturned /\ Degenerate) => angle \in {0, 18000}

\* C22: with an arm of zero length the call returns, and the angle is the defined
\* value 90 degrees, the middle of the range
C22_DegenerateIsRightAngle ==
    (AngleReturned /\ Degenerate) => angle = 9000

C22_Witness ==
    /\ AngleReturned
    /\ joints[1] = joints[2]
    /\ joints[3] # joints[2]

C22_WitnessAllCoincide ==
    /\ AngleReturned
    /\ joints[1] = joints[2]
    /\ joints[3] = joints[2]

(***************************************************************************)
(* poses_to_numpy: one float32 row per frame.  The values of a frame are   *)
(* carried as whole numbers of magnitude below 2^25.                       *)
(***************************************************************************)
NumLandmarks == 33
LandmarkWidth == 4

\* np.array(rows, dtype=np.float32): a float32 keeps 24 significant bits: above 2^24 the nearest even number, a tie
\* going to the multiple of 4
Float32(x) ==
    LET m == Abs(x)
        r == IF m <= 16777216 THEN m
             ELSE IF m % 2 = 0 THEN m
             ELSE IF (m + 1) % 4 = 0 THEN m + 1
             ELSE m - 1
    IN  IF x < 0 THEN -r ELSE r

\* landmarks read column by column
FlattenColumns(landmarks) ==
    [p \in 1..(NumLandmarks * LandmarkWidth) |->
        landmarks[((p - 1) % NumLandmarks) + 1][((p - 1) \div NumLandmarks) + 1]]

\* pf.landmarks.flatten(): row-major, landmark by landmark
Flatten(landmarks) ==
    [p \in 1..(NumLandmarks * LandmarkWidth) |->
        landmarks[((p - 1) \div LandmarkWidth) + 1][((p - 1) % LandmarkWidth) + 1]]

Extra(pf) ==
    <<pf.center_of_mass[1], pf.center_of_mass[2], pf.center_of_mass[3],
      pf.board_angle, pf.knee_angle_left, pf.knee_angle_right>>

\* np.concatenate([flat_landmarks, extra])
Row(pf) == Flatten(pf.landmarks) \o Extra(pf)

poses_to_numpy(frames) ==
    [i \in 1..Len(frames) |->
        [p \in 1..Len(Row(frames[i])) |-> Float32(Row(frames[i])[p])]]

(***************************************************************************)
(* poses_to_numpy on every list of up to MaxArrayFrames frames             *)
(***************************************************************************)
MaxArrayFrames == 3

\* a frame whose landmark values are all different: first + 4 * joint + column
LandmarkFrame(idx, first, com, board, knee_left, knee_right) ==
    [frame_idx |-> idx, timestamp_ms |-> 66 * idx,
     landmarks |-> [j \in 1..NumLandmarks |->
                       [k \in 1..LandmarkWidth |-> first + LandmarkWidth * (j - 1) + (k - 1)]],
     center_of_mass |-> com, board_angle |-> board,
     knee_angle_left |-> knee_left, knee_angle_right |-> knee_right,
     is_airborne |-> FALSE]

\* 16777200 puts landmark values on both sides of 2^24, where float32 starts to round
FirstLandmarkValues == {0, 16777200}
ExtraValues == {<<(<<50, 50, 0>>), 10, 140, 145>>, <<(<<-7, 16777217, 3>>), -45, 90, 91>>}

InitArray ==
    /\ Idle
    /\ \E n \in 0..MaxArrayFrames :
       \E first \in [1..n -> FirstLandmarkValues] : \E extra \in [1..n -> ExtraValues] :
           pose_frames = [i \in 1..n |->
               LandmarkFrame(i - 1, first[i], extra[i][1], extra[i][2], extra[i][3], extra[i][4])]

PosesToNumpy ==
    /\ pc = "input"
    /\ pose_array' = poses_to_numpy(pose_frames)
    /\ pc' = "poses_to_numpy"
    /\ UNCHANGED <<pose_frames, segments, trick, windows, tricks, airborne_threshold>>
    /\ UNCHANGED <<callVars, extractVars, joints, angle, backendVars>>

SpecArray == InitArray /\ [][PosesToNumpy]_vars

ArrayReturned == pc = "poses_to_numpy"

\* C23: the array has one row per frame, in the order of the list; each row has 138
\* entries: entry 4 * j + k (counted from 0) is value k of landmark j, and entries 132
\* to 137 are the centre of mass x, y, z, the board angle, the left and the right
\* knee angle, each as a float32
C23_RowLayout ==
    ArrayReturned =>
        /\ Len(pose_array) = Len(pose_frames)
        /\ \A i \in 1..Len(pose_frames) :
             LET pf == pose_frames[i]
                 row == pose_array[i]
             IN  /\ Len(row) = 138
                 /\ \A j \in 0..32 : \A k \in 0..3 :
                        row[4 * j + k + 1] = Float32(pf.landmarks[j + 1][k + 1])
                 /\ row[133] = Float32(pf.center_of_mass[1])
                 /\ row[134] = Float32(pf.center_of_mass[2])
                 /\ row[135] = Float32(pf.center_of_mass[3])
                 /\ row[136] = Float32(pf.board_angle)
                 /\ row[137] = Float32(pf.knee_angle_left)
                 /\ row[138] = Float32(pf.knee_angle_right)

\* two frames that differ in their landmarks and in their derived features
C23_Witness ==
    /\ ArrayReturned
    /\ Len(pose_frames) = 2
    /\ pose_frames[1].landmarks # pose_frames[2].landmarks
    /\ pose_frames[1].board_angle # pose_frames[2].board_angle
    /\ pose_array[1] # pose_array[2]

FramesReturned == pc = "extract_from_video"

\* the positions in the video that are sampled and hold a pose
SampledWithPose ==
    {i \in 0..(Len(video.frames) - 1) :
        i % frame_interval = 0 /\ video.frames[i + 1] # NoPose}

\* C24: the frame_idx values of the returned list are non-negative multiples of
\* frame_interval and strictly increasing, and they are exactly the sampled
\* positions of the video at which a pose was found
C24_FrameIdxIncreasing ==
    FramesReturned =>
        /\ \A k \in 1..Len(pose_frames) :
             /\ pose_frames[k].frame_idx >= 0
             /\ pose_frames[k].frame_idx % frame_interval = 0
        /\ \A k \in 1..(Len(pose_frames) - 1) :
             pose_frames[k].frame_idx < pose_frames[k + 1].frame_idx
        /\ {pose_frames[k].frame_idx : k \in 1..Len(pose_frames)} = SampledWithPose

\* every frame sampled, the one at position 1 without a pose, three frames returned
C24_Witness ==
    /\ FramesReturned
    /\ frame_interval = 1
    /\ Len(video.frames) = 4
    /\ video.frames[2] = NoPose
    /\ Len(pose_frames) = 3

\* every second frame sampled, both with a pose
C24_WitnessInterval ==
    /\ FramesReturned
    /\ frame_interval = 2
    /\ Len(pose_frames) = 2
    /\ pose_frames[2].frame_idx = 2

GroundEstimated == pc = "_estimate_ground_and_airborne"

AirborneFrames == {k \in 1..Len(pose_frames) : pose_frames[k].is_airborne}

\* C25: after the pass at least one frame of the list is not airborne, and the
\* frame of a one-frame list is not airborne whatever the heights of its feet
C25_SomeFrameGrounded ==
    GroundEstimated =>
        /\ AirborneFrames # 1..Len(pose_frames)
        /\ Len(pose_frames) = 1 => ~pose_frames[1].is_airborne

\* a single frame whose feet are at different heights
C25_Witness ==
    /\ GroundEstimated
    /\ Len(pose_frames) = 1
    /\ pose_frames[1].left_foot[2] + 10 = pose_frames[1].right_foot[2]

\* all frames but one airborne
C25_WitnessOneGrounded ==
    /\ GroundEstimated
    /\ Len(pose_frames) = MaxGroundFrames
    /\ Cardinality(AirborneFrames) = MaxGroundFrames - 1

(***************************************************************************)
(* detect_tricks on sequences of up to MaxSpanFrames frames with up to two *)
(* airborne runs, the board flat or swinging so that every grounded window *)
(* is a carving, and strictly increasing frame indices                     *)
(***************************************************************************)
MaxSpanFrames == 17

FirstRunLengths == {0, 1, 2, 3, 4}
SecondRunLengths == {0, 2, 3}
RunGaps == {1, 2}
BoardMotions == {"flat", "swinging"}
IncreasingIdxMaps == {"contiguous", "gapped"}

InitSpans ==
    /\ \E n \in 0..MaxSpanFrames :
           \E a \in 0..n, len1 \in FirstRunLengths, gap \in RunGaps, len2 \in SecondRunLengths,
              motion \in BoardMotions, map \in IncreasingIdxMaps :
               pose_frames =
                   [k \in 1..n |->
                       DetectFrame(map, k - 1,
                                   IF motion = "swinging" /\ (k - 1) % 5 = 0 THEN 45 ELSE 0,
                                   \/ a <= k - 1 /\ k - 1 < a + len1
                                   \/ a + len1 + gap <= k - 1 /\ k - 1 < a + len1 + gap + len2)]
    /\ Idle

SpecSpans == InitSpans /\ [][DetectTricks]_vars

TricksDetected == pc = "detect_tricks"

IsAirborneAt(i) == pose_frames[i + 1].is_airborne

\* the maximal runs of consecutive airborne positions, as <<first, last>>
MaximalRuns ==
    LET last == Len(pose_frames) - 1 IN
    {r \in (0..last) \X (0..last) :
        /\ r[1] <= r[2]
        /\ \A i \in r[1]..r[2] : IsAirborneAt(i)
        /\ r[1] = 0 \/ ~IsAirborneAt(r[1] - 1)
        /\ r[2] = last \/ ~IsAirborneAt(r[2] + 1)}

LongRuns == {r \in MaximalRuns : r[2] - r[1] + 1 >= 3}

AirbornePredictions == {k \in DOMAIN tricks : tricks[k].trick_type # "carving"}
CarvingPredictions == {k \in DOMAIN tricks : tricks[k].trick_type = "carving"}

\* C26: the segmenter returns the maximal airborne runs of at least 3 frames, and
\* each of them has exactly one prediction among those returned, which are as many
\* as the runs: no window of the segmenter is classified as None
C26_OnePredictionPerRun ==
    TricksDetected =>
        /\ {segments[s] : s \in DOMAIN segments} = LongRuns
        /\ Len(segments) = Cardinality(LongRuns)
        /\ Cardinality(AirbornePredictions) = Cardinality(LongRuns)
        /\ \A r \in LongRuns :
             Cardinality({k \in AirbornePredictions :
                             /\ tricks[k].start_frame = pose_frames[r[1] + 1].frame_idx
                             /\ tricks[k].end_frame = pose_frames[r[2] + 1].frame_idx}) = 1

\* two runs of at least 3 frames next to a grounded window that is a carving
C26_Witness ==
    /\ TricksDetected
    /\ Cardinality(LongRuns) = 2
    /\ Cardinality(AirbornePredictions) = 2
    /\ CarvingPredictions # {}

\* a run of 2 and a run of 3: one prediction
C26_WitnessShortRun ==
    /\ TricksDetected
    /\ Cardinality(MaximalRuns) = 2
    /\ Cardinality(LongRuns) = 1
    /\ Cardinality(AirbornePredictions) = 1

SpansDisjoint(t, u) == t.end_frame < u.start_frame \/ u.end_frame < t.start_frame

\* a frame that is not airborne lies strictly between the two spans
GroundedBetween(t, u) ==
    \E p \in DOMAIN pose_frames :
        /\ ~pose_frames[p].is_airborne
        /\ \/ t.end_frame < pose_frames[p].frame_idx /\ pose_frames[p].frame_idx < u.start_frame
           \/ u.end_frame < pose_frames[p].frame_idx /\ pose_frames[p].frame_idx < t.start_frame

\* C27: with strictly increasing frame indices, two different airborne predictions
\* have disjoint spans with a grounded frame between them, and no carving's span
\* meets the span of an airborne prediction
C27_SpansApart ==
    (TricksDetected /\ StrictlyIncreasingIdx) =>
        /\ \A j \in AirbornePredictions : \A k \in AirbornePredictions \ {j} :
             /\ SpansDisjoint(tricks[j], tricks[k])
             /\ GroundedBetween(tricks[j], tricks[k])
        /\ \A c \in CarvingPredictions : \A k \in AirbornePredictions :
             SpansDisjoint(tricks[c], tricks[k])

\* two jumps one grounded frame apart, after a carving window
C27_Witness ==
    /\ TricksDetected
    /\ StrictlyIncreasingIdx
    /\ Cardinality(AirbornePredictions) = 2
    /\ CarvingPredictions # {}
    /\ \E j \in AirbornePredictions : \E k \in AirbornePredictions :
           tricks[j].end_frame + 2 = tricks[k].start_frame

(***************************************************************************)
(* detect_tricks and analyze_posture called once each, in either order, on *)
(* the same list (steps 2 and 3 of ReridePipeline.analyze)                 *)
(***************************************************************************)
\* board_angles written back into the frames instead of kept in a local list
ArgumentAfterAbsBoard(method, frames) ==
    IF method = "analyze_posture"
    THEN [k \in DOMAIN frames |-> [frames[k] EXCEPT !.board_angle = Abs(@)]]
    ELSE frames

\* the list passed to self.method(frames) as the call leaves it: both methods only
\* read the list and the attributes of its frames (slices and comprehensions build
\* new lists, tricks.sort sorts the list of predictions)
ArgumentAfter(method, frames) == frames

CallOnFrames ==
    /\ \E method \in Methods :
           /\ \A c \in DOMAIN history : history[c].method # method
           /\ LET call == Invoke(predictor, method, pose_frames)
              IN  /\ history' = Append(history, [method |-> method, argument |-> pose_frames,
                                                 state |-> "returned",
                                                 returned |-> call.returned])
                  /\ predictor' = call.self
           /\ pose_frames' = ArgumentAfter(method, pose_frames)
    /\ UNCHANGED <<pc, segments, trick, windows, tricks, airborne_threshold>>
    /\ UNCHANGED <<scores, result, extractVars, geometryVars, backendVars>>

SpecOrder == InitPosture /\ [][CallOnFrames]_vars

C28_WitnessTricksFirst ==
    /\ Len(history) = 2
    /\ history[1].method = "detect_tricks"
    /\ pose_frames # <<>>
    /\ history[2].returned.overall_score > 0

(***************************************************************************)
(* The analysis service of the backend: request_analysis for one video of  *)
(* the requesting user, called by up to MaxRequests requests of the        *)
(* endpoint start_analysis, and the analyses they start: the background    *)
(* task run_analysis_sync or the Celery task analyze_video_task.           *)
(* video_status is the committed value of the row's status column.  Every  *)
(* request has the AsyncSession its Depends(get_db) provides, and the      *)
(* worker its own SyncSession, so a session sees the status another has    *)
(* assigned only once that one's commit has run.                           *)
(***************************************************************************)
MaxRequests == 2

max_retries == 2

aiVars == <<pose_frames, pc, segments, trick, windows, tricks, airborne_threshold>>

\* an analysis that has started and not ended
Active(a) == a.at \notin {"done", "raised"}

InitBackend ==
    /\ NothingReturned
    /\ pose_frames = <<>>
    /\ video = <<>>
    /\ joints = <<>>
    /\ \E use_celery \in BOOLEAN : settings = [Settings EXCEPT !.use_celery = use_celery]

\* start_analysis calls request_analysis, which suspends at await db.execute(select)
StartRequest ==
    /\ Len(requests) < MaxRequests
    /\ requests' = Append(requests, [at |-> "select", seen |-> "none"])
    /\ UNCHANGED <<aiVars, callVars, extractVars, geometryVars>>
    /\ UNCHANGED <<settings, video_status, analyses>>

\* the select returns the row; the already-processing check; video.status =
\* "processing" in the request's session; suspends at await db.commit()
CheckStatus ==
    /\ \E r \in DOMAIN requests :
           /\ requests[r].at = "select"
           /\ requests' = [requests EXCEPT
                  ![r].seen = video_status,
                  ![r].at = IF video_status = "processing" THEN "ValueError" ELSE "commit"]
    /\ UNCHANGED <<aiVars, callVars, extractVars, geometryVars>>
    /\ UNCHANGED <<settings, video_status, analyses>>

\* the commit makes the status visible; then the task is queued or created and the
\* request returns
CommitAndStart ==
    /\ \E r \in DOMAIN requests :
           /\ requests[r].at = "commit"
           /\ requests' = [requests EXCEPT ![r].at = "returned"]
    /\ video_status' = "processing"
    /\ analyses' = Append(analyses,
           IF settings.use_celery
           THEN [path |-> "analyze_video_task", at |-> "queued", retries |-> 0]
           ELSE [path |-> "run_analysis_sync", at |-> "created", retries |-> 0])
    /\ UNCHANGED <<aiVars, callVars, extractVars, geometryVars, settings>>

\* run_analysis_sync up to the return of the pipeline: the select of the video and
\* await asyncio.to_thread(_run_pipeline, ...), which returns or raises
RunPipeline ==
    /\ \E a \in DOMAIN analyses : \E raises \in BOOLEAN :
           /\ analyses[a].path = "run_analysis_sync"
           /\ analyses[a].at = "created"
           /\ analyses' = [analyses EXCEPT ![a].at = IF raises THEN "raised" ELSE "pipeline_done"]
    /\ UNCHANGED <<aiVars, callVars, extractVars, geometryVars>>
    /\ UNCHANGED <<settings, video_status, requests>>

\* db.add(analysis); video.status = "completed"; await db.commit(), which returns
\* or raises; there is no except clause in run_analysis_sync
StoreResult ==
    /\ \E a \in DOMAIN analyses : \E raises \in BOOLEAN :
           /\ analyses[a].path = "run_analysis_sync"
           /\ analyses[a].at = "pipeline_done"
           /\ analyses' = [analyses EXCEPT ![a].at = IF raises THEN "raised" ELSE "done"]
           /\ video_status' = IF raises THEN video_status ELSE "completed"
    /\ UNCHANGED <<aiVars, callVars, extractVars, geometryVars>>
    /\ UNCHANGED <<settings, requests>>

\* the worker takes the task: video.status = "processing"; session.commit()
WorkerStart ==
    /\ \E a \in DOMAIN analyses :
           /\ analyses[a].path = "analyze_video_task"
           /\ analyses[a].at = "queued"
           /\ analyses' = [analyses EXCEPT ![a].at = "running"]
    /\ video_status' = "processing"
    /\ UNCHANGED <<aiVars, callVars, extractVars, geometryVars>>
    /\ UNCHANGED <<settings, requests>>

\* the rest of the try block: the pipeline and the storing of the result with
\* status "completed"; on an exception the except clause commits status "failed"
\* and raises self.retry(exc=e), which queues the task again max_retries times
WorkerFinish ==
    /\ \E a \in DOMAIN analyses : \E raises \in BOOLEAN :
           /\ analyses[a].path = "analyze_video_task"
           /\ analyses[a].at = "running"
           /\ analyses' = [analyses EXCEPT
                  ![a].at = IF ~raises THEN "done"
                            ELSE IF analyses[a].retries < max_retries THEN "queued"
                            ELSE "raised",
                  ![a].retries = IF raises /\ analyses[a].retries < max_retries
                                 THEN @ + 1 ELSE @]
           /\ video_status' = IF raises THEN "failed" ELSE "completed"
    /\ UNCHANGED <<aiVars, callVars, extractVars, geometryVars>>
    /\ UNCHANGED <<settings, requests>>

\* the steps the event loop and the worker take by themselves
ResumeRequest == CheckStatus \/ CommitAndStart
RunAnalysis == RunPipeline \/ StoreResult \/ WorkerStart \/ WorkerFinish

NextBackend ==
    \/ StartRequest
    \/ CheckStatus
    \/ CommitAndStart
    \/ RunPipeline
    \/ StoreResult
    \/ WorkerStart
    \/ WorkerFinish

\* a coroutine whose await has completed is resumed, and a queued task is taken by
\* the worker; nothing obliges a client to send a request
SpecBackend ==
    /\ InitBackend
    /\ [][NextBackend]_vars
    /\ WF_vars(ResumeRequest)
    /\ WF_vars(RunAnalysis)

PastCheck == {r \in DOMAIN requests : requests[r].at = "commit"}

ActiveAnalyses == {a \in DOMAIN analyses : Active(analyses[a])}

\* C29 as stated: of the requests in progress at most one has passed the
\* already-processing check, and at most one analysis of the video is running
C29_OneAnalysisAtATime ==
    /\ Cardinality(PastCheck) <= 1
    /\ Cardinality(ActiveAnalyses) <= 1

\* C30 as stated: whenever the status is "processing" it is later "completed" or
\* "failed"
C30_LeavesProcessing ==
    (video_status = "processing") ~> (video_status \in {"completed", "failed"})

====
